---- MODULE Spec2Model ----
(***************************************************************************)
(* Model of primitives/finality-pbft/src/lib.rs: the ConsensusLog digest   *)
(* item with its accessors and SCALE wire format, the localized payload    *)
(* encoder, and the sign / verify pair that authenticates round messages.  *)
(*                                                                         *)
(* Byte strings are sequences over 0..255.  Option<T> is a sequence of     *)
(* length at most one: <<>> is None and <<x>> is Some(x).                  *)
(***************************************************************************)
EXTENDS Integers, Sequences, FiniteSets, TLC

VARIABLES
    block,      \* the ConsensusLog entries deposited in the block being built
    selected,   \* Option: the signals the importer selected from the block
    inspected,  \* Option: one entry run through the accessors and the codec
    keystore,   \* the key store handed to sign_message
    signCall,   \* Option: the arguments of the last sign_message call
    signed,     \* Option: the SignedMessage that call returned
    chkCall,    \* Option: the arguments of the last check_message_signature call
    chkResult,  \* Option: the boolean that call returned
    scratch,    \* the scratch buffer of the caller of the whole-call checks
    pc,         \* pc[t]: where caller t is in check_message_signature_with_buffer
    args,       \* args[t]: Option, the arguments caller t passed
    bufs,       \* bufs[b]: the contents of scratch buffer b
    writers,    \* writers[b][i]: the caller that wrote byte i of buffer b (0: earlier contents)
    reused,     \* reused[t]: what the buffer held when the call caller t is encoding began
    result      \* result[t]: Option, the boolean returned to caller t

logVars  == <<block, selected, inspected>>
signVars == <<keystore, signCall, signed, chkCall, chkResult, scratch>>
bufVars  == <<pc, args, bufs, writers, reused, result>>
vars     == <<block, selected, inspected, keystore, signCall, signed, chkCall,
              chkResult, scratch, pc, args, bufs, writers, reused, result>>

None == <<>>
Some(x) == <<x>>

(***************************************************************************)
(* Bounds of the model.                                                    *)
(***************************************************************************)
MaxLogs == 3        \* log entries per block
NumCallers == 2     \* concurrent callers of check_message_signature_with_buffer

(***************************************************************************)
(* SCALE encoding of the primitive types.                                  *)
(***************************************************************************)
PublicLen == 32     \* an ed25519 public key
SignatureLen == 64  \* an ed25519 signature
U64Len == 8
U32Len == 4

RECURSIVE LE(_, _)
\* Fixed-width little-endian integer, as parity-scale-codec writes u32/u64.
LE(n, w) == IF w = 0 THEN <<>> ELSE <<n % 256>> \o LE(n \div 256, w - 1)

RECURSIVE FromLE(_)
FromLE(bytes) ==
    IF bytes = <<>> THEN 0 ELSE Head(bytes) + 256 * FromLE(Tail(bytes))

Take(s, n) == SubSeq(s, 1, n)
Drop(s, n) == SubSeq(s, n + 1, Len(s))

RECURSIVE Flatten(_)
Flatten(ss) == IF ss = <<>> THEN <<>> ELSE Head(ss) \o Flatten(Tail(ss))

\* Compact<u32>, the length prefix of a Vec.
CompactEncode(n) ==
    IF n < 64 THEN <<4 * n>>
    ELSE IF n < 16384 THEN LE(4 * n + 1, 2)
    ELSE LE(4 * n + 2, 4)

\* Decoding results are [ok, value, rest]; rest is the unread input.
DecodeErr == [ok |-> FALSE, value |-> 0, rest |-> <<>>]
DecodeOk(v, r) == [ok |-> TRUE, value |-> v, rest |-> r]

\* Compact<u32>::decode: the two low bits of the first byte select the width,
\* and a value that fits a narrower width is rejected. The big-integer mode
\* carries lengths of 2^30 and more, which no input of this model holds.
CompactDecode(bytes) ==
    IF bytes = <<>> THEN DecodeErr
    ELSE LET mode == Head(bytes) % 4 IN
        CASE mode = 0 -> DecodeOk(Head(bytes) \div 4, Tail(bytes))
          [] mode = 1 ->
                IF Len(bytes) < 2 THEN DecodeErr
                ELSE LET v == FromLE(Take(bytes, 2)) \div 4 IN
                     IF v > 63 THEN DecodeOk(v, Drop(bytes, 2)) ELSE DecodeErr
          [] mode = 2 ->
                IF Len(bytes) < 4 THEN DecodeErr
                ELSE LET v == FromLE(Take(bytes, 4)) \div 4 IN
                     IF v > 16383 THEN DecodeOk(v, Drop(bytes, 4)) ELSE DecodeErr
          [] OTHER -> DecodeErr

DecodeFixed(bytes, w) ==
    IF Len(bytes) < w THEN DecodeErr
    ELSE DecodeOk(FromLE(Take(bytes, w)), Drop(bytes, w))

(***************************************************************************)
(* Authority identities: AuthorityId is the 32 bytes of a public key.      *)
(***************************************************************************)
Key(b) == [i \in 1..PublicLen |-> b]
Alice == Key(1)
Bob == Key(2)
\* 32 bytes that are no point of the curve: an identity a peer may claim.
Mallory == Key(255)
ValidKeys == {Alice, Bob}

EncodeAuthorityList(l) == CompactEncode(Len(l)) \o Flatten(l)

RECURSIVE DecodeAuthorities(_, _, _)
DecodeAuthorities(n, bytes, acc) ==
    IF n = 0 THEN DecodeOk(acc, bytes)
    ELSE IF Len(bytes) < PublicLen THEN DecodeErr
    ELSE DecodeAuthorities(n - 1, Drop(bytes, PublicLen),
                           Append(acc, Take(bytes, PublicLen)))

DecodeAuthorityList(bytes) ==
    LET n == CompactDecode(bytes) IN
    IF n.ok THEN DecodeAuthorities(n.value, n.rest, <<>>) ELSE DecodeErr

(***************************************************************************)
(* ScheduledChange<N> and ConsensusLog<N>, with N = u32.                   *)
(***************************************************************************)
ScheduledChange(next_authorities, delay) ==
    [next_authorities |-> next_authorities, delay |-> delay]

LogScheduledChange(change) == <<"ScheduledChange", change>>
LogForcedChange(median, change) == <<"ForcedChange", median, change>>
LogOnDisabled(index) == <<"OnDisabled", index>>
LogPause(delay) == <<"Pause", delay>>
LogResume(delay) == <<"Resume", delay>>

Kind(entry) == entry[1]

EncodeScheduledChange(c) ==
    EncodeAuthorityList(c.next_authorities) \o LE(c.delay, U32Len)

DecodeScheduledChange(bytes) ==
    LET l == DecodeAuthorityList(bytes) IN
    IF ~l.ok THEN DecodeErr
    ELSE LET d == DecodeFixed(l.rest, U32Len) IN
         IF ~d.ok THEN DecodeErr
         ELSE DecodeOk(ScheduledChange(l.value, d.value), d.rest)

\* A plausible slip: the variants numbered by their position, as the derive
\* does when the #[codec(index = ..)] attributes are missing.
ConsensusLogIndexOrdinal(kind) ==
    CASE kind = "ScheduledChange" -> 0
      [] kind = "ForcedChange" -> 1
      [] kind = "OnDisabled" -> 2
      [] kind = "Pause" -> 3
      [] kind = "Resume" -> 4

\* #[codec(index = ..)] of each variant.
ConsensusLogIndex(kind) ==
    CASE kind = "ScheduledChange" -> 1
      [] kind = "ForcedChange" -> 2
      [] kind = "OnDisabled" -> 3
      [] kind = "Pause" -> 4
      [] kind = "Resume" -> 5

\* derive(Encode): the variant's index byte, then its fields in order.
EncodeConsensusLog(e) ==
    <<ConsensusLogIndex(Kind(e))>> \o
    CASE Kind(e) = "ScheduledChange" -> EncodeScheduledChange(e[2])
      [] Kind(e) = "ForcedChange" -> LE(e[2], U32Len) \o EncodeScheduledChange(e[3])
      [] Kind(e) = "OnDisabled" -> LE(e[2], U64Len)
      [] Kind(e) = "Pause" -> LE(e[2], U32Len)
      [] Kind(e) = "Resume" -> LE(e[2], U32Len)

\* derive(Decode): read the index byte, then the fields of the variant it names.
DecodeConsensusLog(bytes) ==
    IF bytes = <<>> THEN DecodeErr
    ELSE LET idx == Head(bytes)
             body == Tail(bytes)
         IN
         CASE idx = 1 ->
                LET c == DecodeScheduledChange(body) IN
                IF c.ok THEN DecodeOk(LogScheduledChange(c.value), c.rest) ELSE DecodeErr
           [] idx = 2 ->
                LET m == DecodeFixed(body, U32Len) IN
                IF ~m.ok THEN DecodeErr
                ELSE LET c == DecodeScheduledChange(m.rest) IN
                     IF c.ok THEN DecodeOk(LogForcedChange(m.value, c.value), c.rest)
                     ELSE DecodeErr
           [] idx = 3 ->
                LET i == DecodeFixed(body, U64Len) IN
                IF i.ok THEN DecodeOk(LogOnDisabled(i.value), i.rest) ELSE DecodeErr
           [] idx = 4 ->
                LET d == DecodeFixed(body, U32Len) IN
                IF d.ok THEN DecodeOk(LogPause(d.value), d.rest) ELSE DecodeErr
           [] idx = 5 ->
                LET d == DecodeFixed(body, U32Len) IN
                IF d.ok THEN DecodeOk(LogResume(d.value), d.rest) ELSE DecodeErr
           [] OTHER -> DecodeErr

(***************************************************************************)
(* The accessors of ConsensusLog.                                          *)
(***************************************************************************)
try_into_change(e) ==
    IF Kind(e) = "ScheduledChange" THEN Some(e[2]) ELSE None

\* A plausible slip: the forced-change arm missing, every entry falls to `_`.
try_into_forced_change_never(e) == None

try_into_forced_change(e) ==
    IF Kind(e) = "ForcedChange" THEN Some(<<e[2], e[3]>>) ELSE None

\* A plausible slip: the arm copied from try_into_resume and not renamed.
try_into_pause_resume_arm(e) ==
    IF Kind(e) = "Resume" THEN Some(e[2]) ELSE None

try_into_pause(e) ==
    IF Kind(e) = "Pause" THEN Some(e[2]) ELSE None

\* A plausible slip: the wildcard arm returning the payload of a Pause too.
try_into_resume_any_delay(e) ==
    IF Kind(e) \in {"Resume", "Pause"} THEN Some(e[2]) ELSE None

try_into_resume(e) ==
    IF Kind(e) = "Resume" THEN Some(e[2]) ELSE None

(***************************************************************************)
(* Selecting a block's signals under the precedence policy.  The importer  *)
(* that applies the policy is not part of lib.rs; it is modelled from the  *)
(* policy the variants' documentation and the design state: a stateless    *)
(* fold over the ordered entries that keeps, per kind, the first entry its *)
(* accessor matches, and drops the scheduled change when a forced one is   *)
(* present.                                                                *)
(***************************************************************************)
RECURSIVE FirstSome(_)
FirstSome(opts) ==
    IF opts = <<>> THEN None
    ELSE IF Head(opts) # None THEN Head(opts)
    ELSE FirstSome(Tail(opts))

find_scheduled_change(logs) ==
    FirstSome([i \in DOMAIN logs |-> try_into_change(logs[i])])
find_forced_change(logs) ==
    FirstSome([i \in DOMAIN logs |-> try_into_forced_change(logs[i])])
find_pause(logs) ==
    FirstSome([i \in DOMAIN logs |-> try_into_pause(logs[i])])
find_resume(logs) ==
    FirstSome([i \in DOMAIN logs |-> try_into_resume(logs[i])])

select_signals(logs) ==
    LET forced == find_forced_change(logs) IN
    [ forced    |-> forced,
      scheduled |-> IF forced # None THEN None ELSE find_scheduled_change(logs),
      pause     |-> find_pause(logs),
      resume    |-> find_resume(logs) ]

(***************************************************************************)
(* The log entries a block of the model may carry.                         *)
(***************************************************************************)
Entries ==
    { LogScheduledChange(ScheduledChange(<<Alice, Bob>>, 7)),
      LogScheduledChange(ScheduledChange(<<Bob>>, 300)),
      LogForcedChange(5, ScheduledChange(<<Alice>>, 10)),
      LogForcedChange(9, ScheduledChange(<<>>, 0)),
      LogOnDisabled(1),
      LogPause(7), LogPause(10), LogPause(20),
      LogResume(300) }

LogInit ==
    /\ block = <<>>
    /\ selected = None
    /\ inspected = None

\* The chain logic deposits one more entry in the block being built.
DepositLog(e) ==
    /\ selected = None
    /\ Len(block) < MaxLogs
    /\ block' = Append(block, e)
    /\ UNCHANGED <<selected, inspected>>

\* The importer reads the block's entries, once.
ImportBlock ==
    /\ selected = None
    /\ selected' = Some(select_signals(block))
    /\ UNCHANGED <<block, inspected>>

\* One entry of the block is run through the four accessors, encoded,
\* decoded and encoded again.
InspectEntry(i) ==
    LET e == block[i]
        bytes == EncodeConsensusLog(e)
        dec == DecodeConsensusLog(bytes)
    IN
    /\ inspected' = Some([ entry |-> e,
                           change |-> try_into_change(e),
                           forced |-> try_into_forced_change(e),
                           pause |-> try_into_pause(e),
                           resume |-> try_into_resume(e),
                           bytes |-> bytes,
                           decoded |-> dec,
                           reencoded |-> IF dec.ok THEN EncodeConsensusLog(dec.value)
                                         ELSE <<>> ])
    /\ UNCHANGED <<block, selected>>

\* The next block starts with no entries.
NextBlock ==
    /\ selected # None
    /\ block' = <<>>
    /\ selected' = None
    /\ inspected' = None

(***************************************************************************)
(* Claims about the consensus log, checked under SpecLog.                  *)
(***************************************************************************)
KindsIn(logs) == {Kind(logs[i]) : i \in DOMAIN logs}
IsFirstOfKind(logs, i) == \A j \in 1..(i - 1) : Kind(logs[j]) # Kind(logs[i])

\* C4: when an imported block carries both a ScheduledChange and a
\* ForcedChange, in either order, the selected change is the (first) forced
\* change, with its median and its change, and no scheduled change is selected.
C4_ForcedTakesPrecedence ==
    (selected # None /\ {"ScheduledChange", "ForcedChange"} \subseteq KindsIn(block))
    => /\ selected[1].scheduled = None
       /\ \E i \in DOMAIN block :
            /\ Kind(block[i]) = "ForcedChange"
            /\ IsFirstOfKind(block, i)
            /\ selected[1].forced = Some(<<block[i][2], block[i][3]>>)

\* C4 witness: a block whose scheduled change comes before its forced change
\* was imported and the forced change was selected.
C4_Witness ==
    /\ selected # None
    /\ Len(block) >= 2
    /\ Kind(block[1]) = "ScheduledChange"
    /\ Kind(block[2]) = "ForcedChange"
    /\ selected[1].forced = Some(<<block[2][2], block[2][3]>>)

\* C5: of several entries of one kind in an imported block only the earliest
\* is honored: the selected pause, resume and forced change are the payload of
\* the first entry of that kind, and the selected scheduled change is the
\* payload of the first ScheduledChange or nothing, never a later entry's.
C5_EarliestOfKindWins ==
    selected # None =>
        \A i \in DOMAIN block :
            IsFirstOfKind(block, i) =>
                /\ Kind(block[i]) = "Pause" => selected[1].pause = Some(block[i][2])
                /\ Kind(block[i]) = "Resume" => selected[1].resume = Some(block[i][2])
                /\ Kind(block[i]) = "ForcedChange" =>
                        selected[1].forced = Some(<<block[i][2], block[i][3]>>)
                /\ Kind(block[i]) = "ScheduledChange" =>
                        selected[1].scheduled \in {None, Some(block[i][2])}

\* C5 witness: Pause(10) then Pause(20) were imported and the pause honored
\* is the one of delay 10.
C5_Witness ==
    /\ selected # None
    /\ block = <<LogPause(10), LogPause(20)>>
    /\ selected[1].pause = Some(10)

Matched(opt) == IF opt = None THEN 0 ELSE 1

\* C6: each accessor returns the unchanged payload of an entry of its own
\* variant and no match for the four other variants; exactly one accessor
\* matches an entry that is not OnDisabled and none matches OnDisabled.
C6_AccessorsMatchOwnVariant ==
    inspected # None =>
        LET r == inspected[1]
            e == r.entry
        IN
        /\ r.change = IF Kind(e) = "ScheduledChange" THEN Some(e[2]) ELSE None
        /\ r.forced = IF Kind(e) = "ForcedChange" THEN Some(<<e[2], e[3]>>) ELSE None
        /\ r.pause = IF Kind(e) = "Pause" THEN Some(e[2]) ELSE None
        /\ r.resume = IF Kind(e) = "Resume" THEN Some(e[2]) ELSE None
        /\ Matched(r.change) + Matched(r.forced) + Matched(r.pause) + Matched(r.resume)
             = IF Kind(e) = "OnDisabled" THEN 0 ELSE 1

\* C6 witness: Pause(7) was inspected; try_into_change gave no match and
\* try_into_pause gave 7.
C6_Witness ==
    /\ inspected # None
    /\ inspected[1].entry = LogPause(7)
    /\ inspected[1].change = None
    /\ inspected[1].pause = Some(7)

Discriminant(kind) ==
    CASE kind = "ScheduledChange" -> 1
      [] kind = "ForcedChange" -> 2
      [] kind = "OnDisabled" -> 3
      [] kind = "Pause" -> 4
      [] kind = "Resume" -> 5

\* C7: an entry encodes as its fixed discriminant byte (1..5) followed by its
\* payload; decoding the bytes gives the entry back, leaving no input unread,
\* and encoding the decoded value gives the same bytes.
C7_WireRoundTrip ==
    inspected # None =>
        LET r == inspected[1]
            e == r.entry
        IN
        /\ Head(r.bytes) = Discriminant(Kind(e))
        /\ Kind(e) \in {"Pause", "Resume"} => Tail(r.bytes) = LE(e[2], 4)
        /\ Kind(e) = "OnDisabled" => Tail(r.bytes) = LE(e[2], 8)
        /\ Kind(e) = "ScheduledChange" =>
                Tail(r.bytes) = <<4 * Len(e[2].next_authorities)>>
                                \o Flatten(e[2].next_authorities) \o LE(e[2].delay, 4)
        /\ Kind(e) = "ForcedChange" =>
                Tail(r.bytes) = LE(e[2], 4) \o <<4 * Len(e[3].next_authorities)>>
                                \o Flatten(e[3].next_authorities) \o LE(e[3].delay, 4)
        /\ r.decoded.ok
        /\ r.decoded.value = e
        /\ r.decoded.rest = <<>>
        /\ r.reencoded = r.bytes

\* C7 witness: a ForcedChange was encoded with discriminant 2, decoded and
\* encoded again.
C7_Witness ==
    /\ inspected # None
    /\ Kind(inspected[1].entry) = "ForcedChange"
    /\ Head(inspected[1].bytes) = 2
    /\ inspected[1].decoded.ok
    /\ inspected[1].reencoded = inspected[1].bytes

(***************************************************************************)
(* Round messages.  leader::Message<H, N> is any SCALE-encodable value;    *)
(* here H = Vec<u8> and N = u32, so that encodings differ in length.       *)
(***************************************************************************)
Message(target_hash, target_number) ==
    [target_hash |-> target_hash, target_number |-> target_number]

EncodeMessage(m) ==
    CompactEncode(Len(m.target_hash)) \o m.target_hash \o LE(m.target_number, U32Len)

M1 == Message(<<7>>, 1)
M2 == Message(<<7, 1>>, 0)
Messages == {M1, M2}
Views == {5, 6}
SetIds == {3, 4}

(***************************************************************************)
(* The localized payload encoder.                                          *)
(***************************************************************************)
\* A plausible slip: the call to clear() left out.
clear_missing(buf) == buf

\* Vec::clear
clear(buf) == <<>>

\* A plausible slip: the set id left out of the signed tuple.
encode_to_without_set_id(message, view, set_id, buf) ==
    buf \o EncodeMessage(message) \o LE(view, U64Len)

\* (message, view, set_id).encode_to(buf): the fields appended in order.
encode_to(message, view, set_id, buf) ==
    buf \o EncodeMessage(message) \o LE(view, U64Len) \o LE(set_id, U64Len)

\* The buffer as the call leaves it.
localized_payload_with_buffer(view, set_id, message, buf) ==
    encode_to(message, view, set_id, clear(buf))

\* A plausible slip: view and set id passed on in the wrong order.
localized_payload_swapped(view, set_id, message) ==
    localized_payload_with_buffer(set_id, view, message, <<>>)

localized_payload(view, set_id, message) ==
    localized_payload_with_buffer(view, set_id, message, <<>>)

(***************************************************************************)
(* ed25519, idealised: the signature of `payload` under the secret key of  *)
(* `signer` is a value only the pair (signer, payload) determines, and it  *)
(* verifies for that public key and that payload alone.                    *)
(***************************************************************************)
Signature(signer, payload) == [signer |-> signer, payload |-> payload]

\* 64 bytes that are the signature of nothing.
Garbage == Signature(Mallory, <<>>)

\* RuntimeAppPublic::verify of an ed25519 public key.
ed25519_verify(id, payload, signature) ==
    /\ id \in ValidKeys
    /\ signature.signer = id
    /\ signature.payload = payload

(***************************************************************************)
(* Verification.                                                           *)
(***************************************************************************)
\* A plausible slip: the signature verified before the payload is localized,
\* against whatever the buffer held.
check_message_signature_with_stale_buffer(message, id, signature, view, set_id, buf) ==
    [ valid |-> ed25519_verify(id, buf, signature),
      buf |-> localized_payload_with_buffer(view, set_id, message, buf) ]

\* The boolean returned and the buffer as the call leaves it.
check_message_signature_with_buffer(message, id, signature, view, set_id, buf) ==
    LET payload == localized_payload_with_buffer(view, set_id, message, buf) IN
    [ valid |-> ed25519_verify(id, payload, signature), buf |-> payload ]

check_message_signature(message, id, signature, view, set_id) ==
    check_message_signature_with_buffer(message, id, signature, view, set_id, <<>>).valid

(***************************************************************************)
(* The key store and signing.                                              *)
(***************************************************************************)
KEY_TYPE == "pbft"

\* The keys a key store of the model may hold, as (key type, public key).
KeyCandidates == {<<"pbft", Alice>>, <<"pbft", Bob>>, <<"gran", Bob>>}
KeystoreFaults == {"none", "error", "malformed"}

Err == [ok |-> FALSE, value |-> None]
Ok(v) == [ok |-> TRUE, value |-> v]

\* SyncCryptoStore::sign_with: Err when signing fails, Ok(None) when the key
\* is not held under the key type, else Ok(Some(bytes)). A store at fault
\* "malformed" returns bytes one short of a signature.
sign_with(ks, key_type, public, msg) ==
    IF ks.fault = "error" THEN Err
    ELSE IF <<key_type, public>> \notin ks.keys THEN Ok(None)
    ELSE Ok(Some([ len |-> IF ks.fault = "malformed" THEN SignatureLen - 1
                           ELSE SignatureLen,
                   sig |-> Signature(public, msg) ]))

\* Vec<u8> -> AuthoritySignature: only 64 bytes convert.
try_into(bytes) ==
    IF bytes.len = SignatureLen THEN Some(bytes.sig) ELSE None

\* A plausible slip: the bytes taken as a signature whatever their length.
sign_message_unchecked(ks, message, public, view, set_id) ==
    LET encoded == localized_payload(view, set_id, message)
        r == sign_with(ks, KEY_TYPE, public, encoded)
        bytes == IF r.ok THEN r.value ELSE None
    IN
    IF bytes = None THEN None
    ELSE Some([message |-> message, signature |-> bytes[1].sig, id |-> public])

sign_message(ks, message, public, view, set_id) ==
    LET encoded == localized_payload(view, set_id, message)
        r == sign_with(ks, KEY_TYPE, public, encoded)
        bytes == IF r.ok THEN r.value ELSE None        \* .ok().flatten()
    IN
    IF bytes = None THEN None                          \* ?
    ELSE LET signature == try_into(bytes[1]) IN        \* .try_into().ok()
         IF signature = None THEN None                 \* ?
         ELSE Some([message |-> message, signature |-> signature[1], id |-> public])

(***************************************************************************)
(* The three groups of variables at rest.                                  *)
(***************************************************************************)
Callers == 1..NumCallers

\* 40 bytes no payload holds, longer than any payload of the model.
LongJunk == [i \in 1..40 |-> 255]

LogIdle ==
    /\ block = <<>>
    /\ selected = None
    /\ inspected = None

SignIdle ==
    /\ keystore = [keys |-> {}, fault |-> "none"]
    /\ signCall = None
    /\ signed = None
    /\ chkCall = None
    /\ chkResult = None
    /\ scratch = <<>>

BufIdle ==
    /\ pc = [t \in Callers |-> "idle"]
    /\ args = [t \in Callers |-> None]
    /\ bufs = [t \in Callers |-> <<>>]
    /\ writers = [t \in Callers |-> <<>>]
    /\ reused = [t \in Callers |-> "empty"]
    /\ result = [t \in Callers |-> None]

(***************************************************************************)
(* SpecLog: blocks are built, imported and inspected.                      *)
(***************************************************************************)
InitLog == LogInit /\ SignIdle /\ BufIdle

NextLog ==
    \/ \E e \in Entries : DepositLog(e) /\ UNCHANGED <<signVars, bufVars>>
    \/ ImportBlock /\ UNCHANGED <<signVars, bufVars>>
    \/ \E i \in DOMAIN block : InspectEntry(i) /\ UNCHANGED <<signVars, bufVars>>
    \/ NextBlock /\ UNCHANGED <<signVars, bufVars>>

SpecLog == InitLog /\ [][NextLog]_vars

(***************************************************************************)
(* SpecSign: a node signs with its key store and checks what was signed.   *)
(***************************************************************************)
CheckArgs(message, id, signature, view, set_id, with_buffer) ==
    [ message |-> message, id |-> id, signature |-> signature,
      view |-> view, set_id |-> set_id, with_buffer |-> with_buffer ]

InitSign ==
    /\ LogIdle
    /\ BufIdle
    /\ keystore \in [keys : SUBSET KeyCandidates, fault : KeystoreFaults]
    /\ signCall = None
    /\ signed = None
    /\ chkCall = None
    /\ chkResult = None
    /\ scratch = <<>>

SignMessage(message, public, view, set_id) ==
    /\ signCall' = Some([ message |-> message, public |-> public,
                          view |-> view, set_id |-> set_id ])
    /\ signed' = sign_message(keystore, message, public, view, set_id)
    /\ chkCall' = None
    /\ chkResult' = None
    /\ UNCHANGED <<keystore, scratch>>

\* The signature sign_message returned is checked, for any message, identity,
\* view and set id.
CheckSigned(message, id, view, set_id) ==
    /\ signed # None
    /\ chkCall' = Some(CheckArgs(message, id, signed[1].signature, view, set_id, FALSE))
    /\ chkResult' =
          Some(check_message_signature(message, id, signed[1].signature, view, set_id))
    /\ UNCHANGED <<keystore, signCall, signed, scratch>>

NextSign ==
    \/ \E m \in Messages, p \in {Alice, Bob}, v \in Views, s \in SetIds :
            SignMessage(m, p, v, s) /\ UNCHANGED <<logVars, bufVars>>
    \/ \E m \in Messages, i \in {Alice, Bob, Mallory}, v \in Views, s \in SetIds :
            CheckSigned(m, i, v, s) /\ UNCHANGED <<logVars, bufVars>>

SpecSign == InitSign /\ [][NextSign]_vars

(***************************************************************************)
(* SpecVerify: votes of any provenance are checked, with a fresh buffer or *)
(* with the caller's scratch buffer.                                       *)
(***************************************************************************)
\* What a peer may send as a signature: a signature Alice or Bob made for
\* (M1, view 5, set 3), or bytes that are no signature.
ClaimedSignatures ==
    { Signature(Alice, localized_payload(5, 3, M1)),
      Signature(Bob, localized_payload(5, 3, M1)),
      Garbage }

InitVerify ==
    /\ LogIdle
    /\ BufIdle
    /\ keystore = [keys |-> {}, fault |-> "none"]
    /\ signCall = None
    /\ signed = None
    /\ chkCall = None
    /\ chkResult = None
    /\ scratch \in {<<>>, LongJunk}

CheckMessageSignature(message, id, signature, view, set_id) ==
    /\ chkCall' = Some(CheckArgs(message, id, signature, view, set_id, FALSE))
    /\ chkResult' = Some(check_message_signature(message, id, signature, view, set_id))
    /\ UNCHANGED <<keystore, signCall, signed, scratch>>

CheckMessageSignatureWithBuffer(message, id, signature, view, set_id) ==
    LET r == check_message_signature_with_buffer(message, id, signature, view, set_id,
                                                 scratch)
    IN
    /\ chkCall' = Some(CheckArgs(message, id, signature, view, set_id, TRUE))
    /\ chkResult' = Some(r.valid)
    /\ scratch' = r.buf
    /\ UNCHANGED <<keystore, signCall, signed>>

NextVerify ==
    \/ \E m \in Messages, i \in {Alice, Bob, Mallory}, g \in ClaimedSignatures,
          v \in Views, s \in SetIds :
            CheckMessageSignature(m, i, g, v, s) /\ UNCHANGED <<logVars, bufVars>>
    \/ \E m \in Messages, i \in {Alice, Bob, Mallory}, g \in ClaimedSignatures,
          v \in Views, s \in SetIds :
            CheckMessageSignatureWithBuffer(m, i, g, v, s) /\ UNCHANGED <<logVars, bufVars>>

SpecVerify == InitVerify /\ [][NextVerify]_vars

(***************************************************************************)
(* SpecBuf: callers run check_message_signature_with_buffer concurrently,  *)
(* step by step (clear the buffer, encode the payload, verify), each with  *)
(* the buffer it passes as `buf` and reuses from call to call.             *)
(***************************************************************************)
\* A plausible slip: every caller handed the same buffer.
BufOfShared(t) == 1

\* The buffer caller t passes: &mut Vec<u8> is an exclusive borrow.
BufOf(t) == t

\* The votes the callers check: every (message, view, set id), each with
\* Alice's signature for (M1, view 5, set 3) and Alice as the claimed signer.
CallArgs ==
    { CheckArgs(m, Alice, Signature(Alice, localized_payload(5, 3, M1)), v, s, TRUE) :
        m \in Messages, v \in Views, s \in SetIds }

Contents(buf) ==
    IF buf = <<>> THEN "empty" ELSE IF buf = LongJunk THEN "junk" ELSE "payload"

InitBuf ==
    /\ LogIdle
    /\ SignIdle
    /\ pc = [t \in Callers |-> "idle"]
    /\ args = [t \in Callers |-> None]
    /\ bufs \in [Callers -> {<<>>, LongJunk}]
    /\ writers = [t \in Callers |-> [i \in 1..Len(bufs[t]) |-> 0]]
    /\ reused = [t \in Callers |-> "empty"]
    /\ result = [t \in Callers |-> None]

\* The call begins: localized_payload_with_buffer clears the buffer.
Begin(t, a) ==
    LET b == BufOf(t)
        cleared == clear(bufs[b])
    IN
    /\ pc[t] = "idle"
    /\ pc' = [pc EXCEPT ![t] = "cleared"]
    /\ args' = [args EXCEPT ![t] = Some(a)]
    /\ reused' = [reused EXCEPT ![t] = Contents(bufs[b])]
    /\ bufs' = [bufs EXCEPT ![b] = cleared]
    /\ writers' = [writers EXCEPT ![b] = Take(writers[b], Len(cleared))]
    /\ UNCHANGED result

\* (message, view, set_id).encode_to(buf)
Encode(t) ==
    LET b == BufOf(t)
        a == args[t][1]
        encoded == encode_to(a.message, a.view, a.set_id, bufs[b])
    IN
    /\ pc[t] = "cleared"
    /\ pc' = [pc EXCEPT ![t] = "encoded"]
    /\ bufs' = [bufs EXCEPT ![b] = encoded]
    /\ writers' = [writers EXCEPT ![b] =
                      writers[b] \o [i \in 1..(Len(encoded) - Len(bufs[b])) |-> t]]
    /\ UNCHANGED <<args, reused, result>>

\* id.verify(&buf, signature)
Verify(t) ==
    LET a == args[t][1] IN
    /\ pc[t] = "encoded"
    /\ pc' = [pc EXCEPT ![t] = "done"]
    /\ result' = [result EXCEPT ![t] = Some(ed25519_verify(a.id, bufs[BufOf(t)], a.signature))]
    /\ reused' = [reused EXCEPT ![t] = "empty"]
    /\ UNCHANGED <<args, bufs, writers>>

\* The caller takes the result and keeps its buffer for the next call.
Return(t) ==
    /\ pc[t] = "done"
    /\ pc' = [pc EXCEPT ![t] = "idle"]
    /\ args' = [args EXCEPT ![t] = None]
    /\ result' = [result EXCEPT ![t] = None]
    /\ UNCHANGED <<bufs, writers, reused>>

NextBuf ==
    \/ \E t \in Callers, a \in CallArgs : Begin(t, a) /\ UNCHANGED <<logVars, signVars>>
    \/ \E t \in Callers : Encode(t) /\ UNCHANGED <<logVars, signVars>>
    \/ \E t \in Callers : Verify(t) /\ UNCHANGED <<logVars, signVars>>
    \/ \E t \in Callers : Return(t) /\ UNCHANGED <<logVars, signVars>>

SpecBuf == InitBuf /\ [][NextBuf]_vars

(***************************************************************************)
(* Claims about signing and verification.                                  *)
(***************************************************************************)
\* The bytes a vote for (message, view, set_id) is signed over.
ExpectedPayload(message, view, set_id) ==
    EncodeMessage(message) \o LE(view, 8) \o LE(set_id, 8)

KeyHeld == signCall # None /\ <<KEY_TYPE, signCall[1].public>> \in keystore.keys

\* The last check was of the signed message as it was signed.
CheckedAsSigned ==
    /\ signCall # None /\ signed # None /\ chkCall # None
    /\ chkCall[1].message = signed[1].message
    /\ chkCall[1].signature = signed[1].signature
    /\ chkCall[1].id = signed[1].id
    /\ chkCall[1].view = signCall[1].view
    /\ chkCall[1].set_id = signCall[1].set_id

Differs(x, y) == IF x = y THEN 0 ELSE 1

\* How many of message, identity, view and set id the last check replaced.
Replaced ==
    Differs(chkCall[1].message, signCall[1].message)
    + Differs(chkCall[1].id, signCall[1].public)
    + Differs(chkCall[1].view, signCall[1].view)
    + Differs(chkCall[1].set_id, signCall[1].set_id)

\* C2: a signature sign_message produced for (message, identity, view,
\* set_id) is rejected when exactly one of the four is replaced by another
\* value and the other three are kept.
C2_NoCrossContextReplay ==
    (signed # None /\ chkCall # None /\ chkCall[1].signature = signed[1].signature
        /\ Replaced = 1)
    => chkResult = Some(FALSE)

\* C2 witness: a signature made for (view 5, set 3) was checked for
\* (view 5, set 4) with the same message and identity, and was rejected.
C2_Witness ==
    /\ signed # None /\ chkCall # None
    /\ signCall[1].view = 5 /\ signCall[1].set_id = 3
    /\ chkCall[1].view = 5 /\ chkCall[1].set_id = 4
    /\ chkCall[1].message = signCall[1].message
    /\ chkCall[1].id = signCall[1].public
    /\ chkResult = Some(FALSE)

\* C8: sign_message returns None when the key store reports an error, when
\* it does not hold the key of the identity under KEY_TYPE, and when the bytes
\* it returns do not convert into AuthoritySignature; a SignedMessage it
\* returns carries the input message and the input identity.
C8_SigningDegradesToNone ==
    signCall # None =>
        /\ keystore.fault = "error" => signed = None
        /\ <<"pbft", signCall[1].public>> \notin keystore.keys => signed = None
        /\ keystore.fault = "malformed" => signed = None
        /\ signed # None => /\ signed[1].message = signCall[1].message
                            /\ signed[1].id = signCall[1].public

\* C8 witness: the key is held, the store returned bytes that are no
\* signature, and sign_message returned None.
C8_Witness ==
    /\ KeyHeld
    /\ keystore.fault = "malformed"
    /\ signed = None

\* C9: a check returns a boolean; it returns true only for the signature of
\* the claimed identity over the payload of the given message, view and set
\* id, so a signature that does not verify gives false; and the buffer-taking
\* check leaves that payload in the scratch buffer.
C9_VerificationIsBoolean ==
    chkCall # None =>
        LET c == chkCall[1] IN
        /\ chkResult \in {Some(TRUE), Some(FALSE)}
        /\ chkResult = Some(TRUE) <=>
                /\ c.id \in {Alice, Bob}
                /\ c.signature = Signature(c.id, ExpectedPayload(c.message, c.view, c.set_id))
        /\ c.with_buffer => scratch = ExpectedPayload(c.message, c.view, c.set_id)

\* C9 witness: Bob's signature was checked against Alice's identity with the
\* scratch buffer, and the result was false.
C9_Witness ==
    /\ chkCall # None
    /\ chkCall[1].with_buffer
    /\ chkCall[1].id = Alice
    /\ chkCall[1].signature.signer = Bob
    /\ chkResult = Some(FALSE)

\* C3: whatever the buffer held before the call, once the payload is encoded
\* the buffer holds the encoding of the message, then the view, then the set
\* id, and nothing else; these are the bytes localized_payload returns.
C3_PayloadEncodingAgrees ==
    \A t \in Callers :
        pc[t] \in {"encoded", "done"} =>
            LET a == args[t][1] IN
            /\ bufs[BufOf(t)] = ExpectedPayload(a.message, a.view, a.set_id)
            /\ bufs[BufOf(t)] = localized_payload(a.view, a.set_id, a.message)

\* C3 witness: a caller encoded into a buffer that held the payload of an
\* earlier call.
C3_Witness ==
    \E t \in Callers :
        /\ pc[t] = "encoded"
        /\ reused[t] = "payload"
        /\ bufs[BufOf(t)] = localized_payload(args[t][1].view, args[t][1].set_id,
                                              args[t][1].message)

\* C10: under every interleaving, a caller's result is the result of
\* check_message_signature on its arguments, and its buffer holds no byte
\* another caller wrote.
C10_PrivateBuffersIsolate ==
    \A t \in Callers :
        /\ pc[t] = "done" =>
                result[t] = Some(check_message_signature(
                                    args[t][1].message, args[t][1].id,
                                    args[t][1].signature, args[t][1].view,
                                    args[t][1].set_id))
        /\ \A i \in DOMAIN writers[BufOf(t)] : writers[BufOf(t)][i] \in {0, t}

\* C10 witness: one caller has its result, true, while another, checking
\* other arguments, has encoded and not yet verified.
C10_Witness ==
    \E t, u \in Callers :
        /\ t # u
        /\ pc[t] = "done" /\ result[t] = Some(TRUE)
        /\ pc[u] = "encoded"
        /\ args[u] # args[t]

====
